---- MODULE Spec2Model ----
(***************************************************************************)
(* Model of datahub's AddDatasetTags transformer                           *)
(* (metadata-ingestion/src/datahub/ingestion/transformer/                  *)
(* add_dataset_tags.py): the per-aspect transform, the processed_tags      *)
(* accumulator and the end-of-stream emission of tag declarations.         *)
(*                                                                         *)
(* A string URN "urn:li:tag:<id>" is modelled as the sequence of its       *)
(* tokens, <<"urn", "li", "tag", id...>>; "urn:li:tag:(a,b)" has the two   *)
(* identifier components a and b.  An Optional value is a record with a    *)
(* `none` flag.                                                            *)
(***************************************************************************)
EXTENDS Integers, Sequences, FiniteSets, TLC

VARIABLES config, processed_tags, call, returned, emitted_before,
          n_transforms, n_flushes

vars == <<config, processed_tags, call, returned, emitted_before,
          n_transforms, n_flushes>>

(* ------------------------------ bounds -------------------------------- *)

MaxTransforms == 2

MaxFlushes == 2

MaxRuleLen == 2

MaxExisting == 2

(* ------------------------------ values -------------------------------- *)

None == [none |-> TRUE, tags |-> <<>>]

Some(list) == [none |-> FALSE, tags |-> list]

Range(s) == {s[i] : i \in 1..Len(s)}

SeqsUpTo(S, n) == UNION {[1..k -> S] : k \in 0..n}

UrnPrefix == <<"urn", "li", "tag">>

TagAssociationClass(tag, context) == [tag |-> tag, context |-> context]

GlobalTagsClass(tags) == Some(tags)

TagKeyClass(name) == [name |-> name]

MetadataChangeProposalWrapper(entityUrn, aspect) ==
    [entityUrn |-> entityUrn, aspect |-> aspect]

\* builder.make_tag_urn: "urn:li:tag:" + tag
make_tag_urn(tag) == UrnPrefix \o <<tag>>

\* TagUrn.create_from_string(...).get_entity_id(): the identifier components
\* that follow the "urn:li:tag" prefix
get_entity_id(urn) == SubSeq(urn, Len(UrnPrefix) + 1, Len(urn))

(* ------------------------------ inputs -------------------------------- *)

EntityUrns == {"dataset1", "dataset2"}

\* tag URNs a tag_urns list can name: two well-formed ones and one with two
\* identifier components
TagUrns == {UrnPrefix \o <<"a">>, UrnPrefix \o <<"b">>, UrnPrefix \o <<"a", "b">>}

TagA == TagAssociationClass(UrnPrefix \o <<"a">>, "None")

TagACtx == TagAssociationClass(UrnPrefix \o <<"a">>, "ctx")

TagB == TagAssociationClass(UrnPrefix \o <<"b">>, "None")

TagC == TagAssociationClass(UrnPrefix \o <<"c">>, "None")

\* a tag whose URN has no identifier component
TagNoId == TagAssociationClass(UrnPrefix, "None")

\* tags an incoming aspect can already carry
ExistingTags == {TagACtx, TagB, TagC}

\* the aspect handed to transform_aspect: absent, or a list in which no tag
\* occurs twice
ExistingAspects ==
    {None} \cup
    {GlobalTagsClass(s) : s \in {l \in SeqsUpTo(ExistingTags, MaxExisting) :
                                    \A i, j \in 1..Len(l) : i < j => l[i] # l[j]}}

\* what a user-supplied get_tags_to_add callback can return for one entity
CallbackResults ==
    {None, Some(<<>>), Some(<<TagACtx>>), Some(<<TagB, TagA>>), Some(<<TagNoId>>)}

Semantics == {"OVERWRITE", "PATCH"}

(* --------------------------- configuration ---------------------------- *)

AddDatasetTagsConfig(get_tags_to_add, replace_existing, semantics) ==
    [get_tags_to_add |-> get_tags_to_add,
     replace_existing |-> replace_existing,
     semantics |-> semantics]

\* SimpleAddDatasetTags.__init__: the rule ignores the entity and returns the
\* list built once from config.tag_urns
SimpleAddDatasetTags(tag_urns, replace_existing, semantics) ==
    LET tags == [i \in 1..Len(tag_urns) |-> TagAssociationClass(tag_urns[i], "None")]
    IN  AddDatasetTagsConfig([e \in EntityUrns |-> Some(tags)],
                             replace_existing, semantics)

Configs ==
    {SimpleAddDatasetTags(l, r, s) :
        l \in SeqsUpTo(TagUrns, MaxRuleLen), r \in BOOLEAN, s \in Semantics}
    \cup
    {AddDatasetTagsConfig(f, r, s) :
        f \in [EntityUrns -> CallbackResults], r \in BOOLEAN, s \in Semantics}

(* ----------------------------- transform ------------------------------ *)

\* DatasetTagsTransformer.update_if_keep_existing: the output starts as a copy
\* of the incoming aspect's tags unless replace_existing is set or no aspect
\* came in
update_if_keep_existing(cfg, in_global_tags_aspect, out_tags) ==
    IF ~in_global_tags_aspect.none /\ ~cfg.replace_existing
    THEN out_tags \o in_global_tags_aspect.tags
    ELSE out_tags

\* DatasetTagsTransformer.get_result_semantics: the aspects the call can
\* return.  OVERWRITE hands the computed aspect back; under PATCH the catalog
\* graph decides: the computed aspect, or nothing when it determines a no-op
get_result_semantics(cfg, out_global_tags_aspect) ==
    IF cfg.semantics = "PATCH"
    THEN {out_global_tags_aspect, None}
    ELSE {out_global_tags_aspect}

\* variant: new tags supersede existing entries with the same tag URN
transform_aspect_body_dedup(cfg, processed, aspect, tags_to_add) ==
    LET kept == update_if_keep_existing(cfg, aspect, <<>>)
        new  == tags_to_add.tags
        fresh(t) == \A j \in 1..Len(new) : new[j].tag # t.tag
    IN  [raised    |-> FALSE,
         out       |-> GlobalTagsClass(SelectSeq(kept, fresh) \o new),
         processed |-> processed \o new]

\* variant: the output aspect shares the accumulator list
transform_aspect_body_alias(cfg, processed, aspect, tags_to_add) ==
    LET kept == update_if_keep_existing(cfg, aspect, <<>>)
        acc  == processed \o tags_to_add.tags
    IN  [raised    |-> FALSE,
         out       |-> GlobalTagsClass(kept \o acc),
         processed |-> acc]

\* variant: the accumulator keeps a tag only the first time it is seen
transform_aspect_body_seen(cfg, processed, aspect, tags_to_add) ==
    LET kept == update_if_keep_existing(cfg, aspect, <<>>)
        new  == tags_to_add.tags
        unseen(t) == t \notin Range(processed)
    IN  [raised    |-> FALSE,
         out       |-> GlobalTagsClass(kept \o new),
         processed |-> processed \o SelectSeq(new, unseen)]

\* variant: no `is not None` test before the two extend calls
transform_aspect_body_unguarded(cfg, processed, aspect, tags_to_add) ==
    LET kept == update_if_keep_existing(cfg, aspect, <<>>)
    IN  IF tags_to_add.none
        THEN [raised |-> TRUE, out |-> None, processed |-> processed]
        ELSE [raised    |-> FALSE,
              out       |-> GlobalTagsClass(kept \o tags_to_add.tags),
              processed |-> processed \o tags_to_add.tags]

\* variant: the accumulator is extended with the whole output tag list
transform_aspect_body_track_out(cfg, processed, aspect, tags_to_add) ==
    LET kept == update_if_keep_existing(cfg, aspect, <<>>)
        out  == kept \o tags_to_add.tags
    IN  [raised    |-> FALSE,
         out       |-> GlobalTagsClass(out),
         processed |-> IF tags_to_add.none THEN processed ELSE processed \o out]

\* AddDatasetTags.transform_aspect, lines 51-62: the computed output aspect
\* and the accumulator after the call
transform_aspect_body(cfg, processed, aspect, tags_to_add) ==
    LET kept == update_if_keep_existing(cfg, aspect, <<>>)
    IN  IF ~tags_to_add.none
        THEN [raised    |-> FALSE,
              out       |-> GlobalTagsClass(kept \o tags_to_add.tags),
              processed |-> processed \o tags_to_add.tags]
        ELSE [raised    |-> FALSE,
              out       |-> GlobalTagsClass(kept),
              processed |-> processed]

(* --------------------------- end of stream ---------------------------- *)

RECURSIVE end_of_stream_loop_skip(_, _)
\* variant: an entry whose URN is malformed is skipped
end_of_stream_loop_skip(tags, mcps) ==
    IF tags = <<>>
    THEN [raised |-> FALSE, mcps |-> mcps]
    ELSE LET ids == get_entity_id(Head(tags).tag)
         IN  IF Len(ids) # 1
             THEN end_of_stream_loop_skip(Tail(tags), mcps)
             ELSE end_of_stream_loop_skip(Tail(tags),
                      Append(mcps, MetadataChangeProposalWrapper(
                                       make_tag_urn(ids[1]), TagKeyClass(ids[1]))))

\* variant: `return mcps` sits inside the loop body
end_of_stream_loop_early_return(tags, mcps) ==
    IF tags = <<>>
    THEN [raised |-> FALSE, mcps |-> mcps]
    ELSE LET ids == get_entity_id(Head(tags).tag)
         IN  IF Len(ids) # 1
             THEN [raised |-> TRUE, mcps |-> <<>>]
             ELSE [raised |-> FALSE,
                   mcps   |-> Append(mcps, MetadataChangeProposalWrapper(
                                               make_tag_urn(ids[1]), TagKeyClass(ids[1])))]

RECURSIVE end_of_stream_loop(_, _)
\* AddDatasetTags.handle_end_of_stream, lines 74-90: one record per entry of
\* the accumulator; a failed assertion leaves the method without its list
end_of_stream_loop(tags, mcps) ==
    IF tags = <<>>
    THEN [raised |-> FALSE, mcps |-> mcps]
    ELSE LET ids == get_entity_id(Head(tags).tag)
         IN  IF Len(ids) # 1
             THEN [raised |-> TRUE, mcps |-> <<>>]
             ELSE end_of_stream_loop(Tail(tags),
                      Append(mcps, MetadataChangeProposalWrapper(
                                       make_tag_urn(ids[1]), TagKeyClass(ids[1]))))

(* ------------------------------ actions ------------------------------- *)

NoCall == [op |-> "init", entity_urn |-> "-", aspect |-> None, tags_to_add |-> None,
           raised |-> FALSE, ret_aspect |-> None, ret_mcps |-> <<>>]

\* records that handle_end_of_stream calls up to and including `c` returned
EmittedThrough(c) ==
    emitted_before \cup
        (IF c.op = "handle_end_of_stream" /\ ~c.raised THEN Range(c.ret_mcps) ELSE {})

\* AddDatasetTags.__init__ with every configuration the three constructors build
Init ==
    /\ config \in Configs
    /\ processed_tags = <<>>
    /\ call = NoCall
    /\ returned = <<>>
    /\ emitted_before = {}
    /\ n_transforms = 0
    /\ n_flushes = 0

transform_aspect(entity_urn, aspect) ==
    /\ n_transforms < MaxTransforms
    /\ LET tags_to_add == config.get_tags_to_add[entity_urn]
           body == transform_aspect_body(config, processed_tags, aspect, tags_to_add)
       IN  /\ processed_tags' = body.processed
           /\ returned' = returned \o tags_to_add.tags
           /\ \E result \in (IF body.raised THEN {None}
                             ELSE get_result_semantics(config, body.out)) :
                call' = [op |-> "transform_aspect", entity_urn |-> entity_urn,
                         aspect |-> aspect, tags_to_add |-> tags_to_add,
                         raised |-> body.raised, ret_aspect |-> result,
                         ret_mcps |-> <<>>]
    /\ emitted_before' = EmittedThrough(call)
    /\ n_transforms' = n_transforms + 1
    /\ UNCHANGED <<config, n_flushes>>

handle_end_of_stream ==
    /\ n_flushes < MaxFlushes
    /\ LET r == end_of_stream_loop(processed_tags, <<>>)
       IN  call' = [op |-> "handle_end_of_stream", entity_urn |-> "-",
                    aspect |-> None, tags_to_add |-> None,
                    raised |-> r.raised, ret_aspect |-> None, ret_mcps |-> r.mcps]
    /\ emitted_before' = EmittedThrough(call)
    /\ n_flushes' = n_flushes + 1
    /\ UNCHANGED <<config, processed_tags, returned, n_transforms>>

TransformStep == \E e \in EntityUrns, a \in ExistingAspects : transform_aspect(e, a)

Next == TransformStep \/ handle_end_of_stream

Spec == Init /\ [][Next]_vars

(* ------------------------------ helpers ------------------------------- *)

IsTransform(c) == c.op = "transform_aspect"

IsFlush(c) == c.op = "handle_end_of_stream"

WellFormed(t) == Len(get_entity_id(t.tag)) = 1

NoDuplicates(s) == \A i, j \in 1..Len(s) : i < j => s[i] # s[j]

TagUrnsOf(tags) == [i \in 1..Len(tags) |-> tags[i].tag]

RecordNames(mcps) == [i \in 1..Len(mcps) |-> mcps[i].aspect.name]

RECURSIVE FirstSeen(_, _)
\* the distinct elements of s in the order of their first occurrence
FirstSeen(s, acc) ==
    IF s = <<>> THEN acc
    ELSE FirstSeen(Tail(s), IF Head(s) \in Range(acc) THEN acc ELSE Append(acc, Head(s)))

ExistingOf(aspect) == IF aspect.none THEN <<>> ELSE aspect.tags

\* a step that is a transform_aspect call
TransformCalled == n_transforms' = n_transforms + 1

(* ------------------------------- claims ------------------------------- *)

\* C1: handle_end_of_stream returns exactly one declaration record per
\* distinct tag identifier of processed_tags, in first-seen order, with no
\* identifier twice.
C1_FlushDeduplicates ==
    (IsFlush(call) /\ ~call.raised) =>
        /\ NoDuplicates(RecordNames(call.ret_mcps))
        /\ RecordNames(call.ret_mcps)
             = FirstSeen([i \in 1..Len(processed_tags) |->
                              get_entity_id(processed_tags[i].tag)[1]], <<>>)

\* C2 as stated: after handle_end_of_stream, every tag a rule result held
\* whose URN has exactly one identifier component has a declaration record in
\* the returned list.
C2_EveryWellFormedTagDeclared ==
    IsFlush(call) =>
        \A i \in 1..Len(returned) :
            WellFormed(returned[i]) =>
                \E j \in 1..Len(call.ret_mcps) :
                    <<call.ret_mcps[j].aspect.name>> = get_entity_id(returned[i].tag)

\* C2 as amended: when handle_end_of_stream returns (no accumulated tag is
\* malformed), every tag a rule result held has a declaration record in the
\* returned list, whatever replace_existing and the existing aspects were.
C2_EveryTagDeclaredOnReturn ==
    (IsFlush(call) /\ ~call.raised) =>
        \A i \in 1..Len(returned) :
            \E j \in 1..Len(call.ret_mcps) :
                /\ <<call.ret_mcps[j].aspect.name>> = get_entity_id(returned[i].tag)
                /\ call.ret_mcps[j].entityUrn = returned[i].tag

C2_Witness ==
    /\ IsFlush(call) /\ ~call.raised
    /\ config.replace_existing
    /\ n_transforms = 2
    /\ Cardinality(Range(TagUrnsOf(returned))) >= 2
    /\ Cardinality(Range(call.ret_mcps)) >= 2

\* C3: with replace_existing=false and the computed aspect returned as is,
\* the returned tag list is the existing tags followed by the rule result,
\* nothing removed or reordered; the rule result alone when no aspect came in.
C3_PatchIsConcatenation ==
    (/\ IsTransform(call)
     /\ ~config.replace_existing
     /\ config.semantics = "OVERWRITE"
     /\ ~call.tags_to_add.none) =>
        /\ ~call.raised
        /\ call.ret_aspect = Some(ExistingOf(call.aspect) \o call.tags_to_add.tags)

C3_Witness ==
    /\ IsTransform(call)
    /\ ~config.replace_existing
    /\ config.semantics = "OVERWRITE"
    /\ ~call.aspect.none /\ Len(call.aspect.tags) = 2
    /\ ~call.tags_to_add.none /\ Len(call.tags_to_add.tags) = 2
    /\ call.aspect.tags[1] # call.aspect.tags[2]
    /\ call.aspect.tags[2].tag = call.tags_to_add.tags[1].tag
    /\ call.ret_aspect.tags = call.aspect.tags \o call.tags_to_add.tags

\* C4: with replace_existing=true and the computed aspect returned as is, the
\* returned tag list is the rule's list for the entity, whatever aspect came
\* in and whatever was called before; a second call for the same entity
\* returns what the first returned.
C4_OverwriteIsPure ==
    /\ []((/\ IsTransform(call)
           /\ config.replace_existing
           /\ config.semantics = "OVERWRITE") =>
             /\ ~call.raised
             /\ call.ret_aspect
                  = Some(config.get_tags_to_add[call.entity_urn].tags))
    /\ [][(/\ TransformCalled
           /\ IsTransform(call)
           /\ call'.entity_urn = call.entity_urn
           /\ config.replace_existing
           /\ config.semantics = "OVERWRITE") =>
             call'.ret_aspect = call.ret_aspect]_vars

C4_Witness ==
    /\ IsTransform(call)
    /\ config.replace_existing
    /\ config.semantics = "OVERWRITE"
    /\ n_transforms = 2 /\ n_flushes = 0
    /\ ~call.aspect.none /\ call.aspect.tags # <<>>
    /\ call.ret_aspect.tags # <<>>
    /\ processed_tags = call.ret_aspect.tags \o call.ret_aspect.tags

\* C5: no two entries of a returned aspect have the same tag identifier.
C5_OutputTagsUnique ==
    (IsTransform(call) /\ ~call.ret_aspect.none) =>
        NoDuplicates(TagUrnsOf(call.ret_aspect.tags))

\* C6: a second handle_end_of_stream call does not return again a record that
\* an earlier call returned.
C6_NoReEmission ==
    IsFlush(call) => Range(call.ret_mcps) \cap emitted_before = {}

\* C7: a tag in the accumulator whose URN does not have exactly one identifier
\* component makes handle_end_of_stream raise and return no record; otherwise
\* it does not raise and every record carries the single component of an
\* accumulated tag as its identifier.
C7_MalformedAbortsFlush ==
    IsFlush(call) =>
        IF \E i \in 1..Len(processed_tags) : ~WellFormed(processed_tags[i])
        THEN call.raised /\ call.ret_mcps = <<>>
        ELSE /\ ~call.raised
             /\ \A j \in 1..Len(call.ret_mcps) :
                  /\ \E i \in 1..Len(processed_tags) :
                       processed_tags[i].tag
                         = UrnPrefix \o <<call.ret_mcps[j].aspect.name>>
                  /\ call.ret_mcps[j].entityUrn
                       = UrnPrefix \o <<call.ret_mcps[j].aspect.name>>
             /\ \A i \in 1..Len(processed_tags) :
                  \E j \in 1..Len(call.ret_mcps) :
                      UrnPrefix \o <<call.ret_mcps[j].aspect.name>>
                        = processed_tags[i].tag

C7_Witness ==
    /\ IsFlush(call) /\ call.raised
    /\ call.ret_mcps = <<>>
    /\ Len(processed_tags) >= 2
    /\ WellFormed(processed_tags[1])
    /\ ~WellFormed(processed_tags[Len(processed_tags)])

\* C8: every transform_aspect call appends exactly its rule result to the end
\* of processed_tags, for either value of replace_existing, so processed_tags
\* is the concatenation of the rule results in call order and only ever grows
\* at its end.
C8_AccumulatorGrowth ==
    /\ [](processed_tags = returned)
    /\ [][TransformCalled =>
            processed_tags' = processed_tags \o call'.tags_to_add.tags]_vars
    /\ [][/\ Len(processed_tags) <= Len(processed_tags')
          /\ SubSeq(processed_tags', 1, Len(processed_tags)) = processed_tags]_vars

C8_Witness ==
    /\ IsTransform(call)
    /\ config.replace_existing
    /\ n_transforms = 2
    /\ Len(call.tags_to_add.tags) = 2
    /\ Len(processed_tags) = 4
    /\ ~NoDuplicates(processed_tags)

\* C9: a rule result of None does not make transform_aspect fail, leaves
\* processed_tags as it was, and gives the aspect an empty rule result gives:
\* the existing tags when replace_existing=false, no tags otherwise.
C9_NoneLikeEmpty ==
    /\ []((IsTransform(call) /\ call.tags_to_add.none) =>
            LET expected == IF config.replace_existing THEN Some(<<>>)
                            ELSE Some(ExistingOf(call.aspect))
            IN  /\ ~call.raised
                /\ call.ret_aspect \in
                     (IF config.semantics = "OVERWRITE" THEN {expected}
                      ELSE {expected, None}))
    /\ [][(TransformCalled /\ call'.tags_to_add.none) =>
            processed_tags' = processed_tags]_vars

C9_Witness ==
    /\ IsTransform(call) /\ call.tags_to_add.none
    /\ ~config.replace_existing
    /\ ~call.aspect.none /\ Len(call.aspect.tags) = 2
    /\ call.ret_aspect = call.aspect
    /\ processed_tags # <<>>

\* C10: every entry of processed_tags was returned by get_tags_to_add in some
\* transform_aspect call, and every declaration record handle_end_of_stream
\* has returned names the identifier of such a tag; a tag that only came in
\* with an existing aspect is not among them.
C10_OnlyRuleTagsDeclared ==
    /\ Range(processed_tags) \subseteq Range(returned)
    /\ \A m \in EmittedThrough(call) :
           \E t \in Range(returned) : get_entity_id(t.tag) = <<m.aspect.name>>

C10_Witness ==
    /\ IsTransform(call)
    /\ ~config.replace_existing
    /\ n_transforms = 2
    /\ emitted_before # {}
    /\ processed_tags # <<>>
    /\ TagC \in Range(call.ret_aspect.tags)
    /\ TagC \notin Range(processed_tags)
    /\ \A m \in emitted_before : m.aspect.name # "c"

====
